---- MODULE Spec2Model ----
(***************************************************************************)
(* Model of run_analysis.py: discovery of microservice directories, the    *)
(* regular-expression dependency extractor, the weighted dependency graph  *)
(* builder, the two-provider narrative step and the entry point.           *)
(*                                                                         *)
(* Text is modelled as sequences of one-character strings so that          *)
(* substring containment, prefixes, suffixes and splitting are computed.   *)
(* A file holds bytes; BAD stands for a byte that is not valid UTF-8.      *)
(***************************************************************************)
EXTENDS Integers, Sequences, FiniteSets, TLC

\* ------------------------------------------------------------------
\* Bounds of the model
\* ------------------------------------------------------------------
\* at most this many source files under the service directories
MaxFiles == 2
\* number of executions of the program over the same, unchanged tree
MaxRuns == 2

\* ------------------------------------------------------------------
\* Characters and strings
\* ------------------------------------------------------------------
BAD == "\\xff"

EmptyStr == << >>

\* A character class: the characters it lists, and whether it is negated
InClass(cls, c) == (c \in cls.chars) # cls.neg

\* \s of the re module (the whitespace that occurs in the modelled files)
SpaceClass == [chars |-> {" ", "\n", "\t"}, neg |-> FALSE]

\* \w of the re module (the word characters that occur in the modelled files)
WordChars == {"a", "b", "c", "d", "e", "f", "g", "h", "i", "j", "k", "l", "m",
              "n", "o", "p", "q", "r", "s", "t", "u", "v", "w", "x", "y", "z", "_"}

\* the class [\w_\.]
WordDotClass == [chars |-> WordChars \cup {"."}, neg |-> FALSE]

\* the class [^'\"]
NotQuoteClass == [chars |-> {"'", "\""}, neg |-> TRUE]

\* every character but ch
NotChar(ch) == [chars |-> {ch}, neg |-> TRUE]

IsSpace(c) == InClass(SpaceClass, c)

\* s[i..] starts with lit
LitAt(s, i, lit) ==
    /\ i >= 1
    /\ i + Len(lit) - 1 <= Len(s)
    /\ \A k \in 1..Len(lit) : s[i + k - 1] = lit[k]

\* str.startswith / str.endswith
StartsWith(s, p) == LitAt(s, 1, p)
EndsWith(s, p) == Len(p) <= Len(s) /\ LitAt(s, Len(s) - Len(p) + 1, p)

\* Python's `sub in s`
Contains(s, sub) == \E i \in 1..(Len(s) - Len(sub) + 1) : LitAt(s, i, sub)

\* index of the first character at or after i that is outside the class
\* (Len(s)+1 when the run reaches the end): a greedy Class+ or Class*
RunEnd(s, i, cls) ==
    CHOOSE j \in i..(Len(s) + 1) :
        /\ \A k \in i..(j - 1) : InClass(cls, s[k])
        /\ (j = Len(s) + 1 \/ ~InClass(cls, s[j]))

\* s.split(sep)[0]
SplitFirst(s, sep) == SubSeq(s, 1, RunEnd(s, 1, NotChar(sep)) - 1)

\* "/" in s
HasChar(s, ch) == \E i \in 1..Len(s) : s[i] = ch

kw_from == <<"f", "r", "o", "m">>
kw_from_sp == <<"f", "r", "o", "m", " ">>
kw_import == <<"i", "m", "p", "o", "r", "t">>
kw_http == <<"h", "t", "t", "p">>
kw_colon_slashes == <<":", "/", "/">>

\* ------------------------------------------------------------------
\* extract_dependencies
\* ------------------------------------------------------------------
NoMatch == [ok |-> FALSE, grp |-> EmptyStr, end |-> 0]

\* from\s+([\w_\.]+)\s+import   tried at position i
MatchFromImport(s, i) ==
    IF ~LitAt(s, i, kw_from) THEN NoMatch
    ELSE LET a == i + 4
             b == RunEnd(s, a, SpaceClass)
             c == RunEnd(s, b, WordDotClass)
             d == RunEnd(s, c, SpaceClass)
         IN  IF b > a /\ c > b /\ d > c /\ LitAt(s, d, kw_import)
             THEN [ok |-> TRUE, grp |-> SubSeq(s, b, c - 1), end |-> d + 6]
             ELSE NoMatch

\* import\s+([\w_\.]+)   tried at position i
MatchImport(s, i) ==
    IF ~LitAt(s, i, kw_import) THEN NoMatch
    ELSE LET a == i + 6
             b == RunEnd(s, a, SpaceClass)
             c == RunEnd(s, b, WordDotClass)
         IN  IF b > a /\ c > b
             THEN [ok |-> TRUE, grp |-> SubSeq(s, b, c - 1), end |-> c]
             ELSE NoMatch

\* from ['\"]([^'\"]+)['\"]   tried at position i
MatchQuotedFrom(s, i) ==
    IF ~LitAt(s, i, kw_from_sp) THEN NoMatch
    ELSE LET q == i + 5
             b == q + 1
             c == IF b <= Len(s) + 1 THEN RunEnd(s, b, NotQuoteClass) ELSE b
         IN  IF q <= Len(s) /\ ~InClass(NotQuoteClass, s[q]) /\ c > b /\ c <= Len(s)
             THEN [ok |-> TRUE, grp |-> SubSeq(s, b, c - 1), end |-> c + 1]
             ELSE NoMatch

\* https?://[^\"']+   tried at position i; the group is the whole match
MatchUrl(s, i) ==
    IF ~LitAt(s, i, kw_http) THEN NoMatch
    ELSE LET a == IF i + 4 <= Len(s) /\ s[i + 4] = "s" THEN i + 5 ELSE i + 4
             b == a + 3
             c == IF b <= Len(s) + 1 THEN RunEnd(s, b, NotQuoteClass) ELSE b
         IN  IF LitAt(s, a, kw_colon_slashes) /\ c > b
             THEN [ok |-> TRUE, grp |-> SubSeq(s, i, c - 1), end |-> c]
             ELSE NoMatch

\* re.findall over the two-alternative import pattern: the groups of the
\* non-overlapping matches found scanning left to right from position i
RECURSIVE FindImports(_, _)
FindImports(s, i) ==
    IF i > Len(s) THEN {}
    ELSE LET m1 == MatchFromImport(s, i)
             m2 == MatchImport(s, i)
         IN  IF m1.ok THEN {m1.grp} \cup FindImports(s, m1.end)
             ELSE IF m2.ok THEN {m2.grp} \cup FindImports(s, m2.end)
             ELSE FindImports(s, i + 1)

RECURSIVE FindQuotedFrom(_, _)
FindQuotedFrom(s, i) ==
    IF i > Len(s) THEN {}
    ELSE LET m == MatchQuotedFrom(s, i)
         IN  IF m.ok THEN {m.grp} \cup FindQuotedFrom(s, m.end)
             ELSE FindQuotedFrom(s, i + 1)

RECURSIVE FindUrls(_, _)
FindUrls(s, i) ==
    IF i > Len(s) THEN {}
    ELSE LET m == MatchUrl(s, i)
         IN  IF m.ok THEN {m.grp} \cup FindUrls(s, m.end)
             ELSE FindUrls(s, i + 1)

\* the set of raw dependency tokens of one file's text
extract_dependencies(file_content) ==
    {SplitFirst(m, ".") : m \in FindImports(file_content, 1)}
    \cup {SplitFirst(m, "/") : m \in {x \in FindQuotedFrom(file_content, 1) : HasChar(x, "/")}}
    \cup FindUrls(file_content, 1)

\* ------------------------------------------------------------------
\* The file tree and the process environment
\* ------------------------------------------------------------------
ui_a == <<"u", "i", "-", "a">>
ui_ab == <<"u", "i", "-", "a", "b">>
psg_c == <<"p", "s", "g", "-", "c">>
\* a directory whose name has no recognised prefix
psg == <<"p", "s", "g">>
\* a regular file of the root whose name has a recognised prefix
ui_f == <<"u", "i", "-", "f">>

m_ts == <<"m", ".", "t", "s">>
n_py == <<"n", ".", "p", "y">>
r_md == <<"r", ".", "m", "d">>

\* from 'ui-ab/x'
K1 == <<"f", "r", "o", "m", " ", "'", "u", "i", "-", "a", "b", "/", "x", "'">>
\* from "psg-c/a" from 'psg-c/b'
K2 == <<"f", "r", "o", "m", " ", "\"", "p", "s", "g", "-", "c", "/", "a", "\"", " ",
        "f", "r", "o", "m", " ", "'", "p", "s", "g", "-", "c", "/", "b", "'">>
\* import ui-a http://psg-c/ui-ab
K3 == <<"i", "m", "p", "o", "r", "t", " ", "u", "i", "-", "a", " ",
        "h", "t", "t", "p", ":", "/", "/", "p", "s", "g", "-", "c", "/", "u", "i", "-", "a", "b">>
\* fr<BAD>om 'psg-c/x'   (one byte that is not valid UTF-8)
K4 == <<"f", "r", BAD, "o", "m", " ", "'", "p", "s", "g", "-", "c", "/", "x", "'">>

\* what a source file can hold: its bytes, and whether open()/read() succeeds
FilePool ==
    {[bytes |-> K1, readable |-> TRUE], [bytes |-> K2, readable |-> TRUE],
     [bytes |-> K3, readable |-> TRUE], [bytes |-> K4, readable |-> TRUE],
     [bytes |-> K1, readable |-> FALSE]}

\* where the source files of the service directories can be
QualPaths ==
    {[dir |-> ui_a, name |-> m_ts], [dir |-> ui_a, name |-> n_py],
     [dir |-> ui_ab, name |-> m_ts], [dir |-> psg_c, name |-> m_ts]}

\* files that are in every tree: one in a directory that is no service, one
\* whose extension is not in the allow-list
FixedFiles ==
    {[dir |-> psg, name |-> m_ts, bytes |-> K1, readable |-> TRUE],
     [dir |-> ui_a, name |-> r_md, bytes |-> K2, readable |-> TRUE]}

\* os.listdir(base_dir) of a readable root
RootEntries ==
    {[name |-> ui_a, isdir |-> TRUE], [name |-> ui_ab, isdir |-> TRUE],
     [name |-> psg_c, isdir |-> TRUE], [name |-> psg, isdir |-> TRUE],
     [name |-> ui_f, isdir |-> FALSE]}

Trees ==
    {FixedFiles \cup {[dir |-> p.dir, name |-> p.name, bytes |-> c[p].bytes,
                       readable |-> c[p].readable] : p \in P} :
        <<P, c>> \in {<<P, c>> \in (SUBSET QualPaths) \X [QualPaths -> FilePool] :
                        /\ Cardinality(P) <= MaxFiles
                        /\ \A q \in QualPaths \ P : c[q] = [bytes |-> K1, readable |-> TRUE]}}

\* values of the environment variable CHANGED_FILES
\* (unset)
Raw0 == EmptyStr
\* " ,\n"
Raw1 == <<" ", ",", "\n">>
\* "ui-a/m.ts, q"
Raw2 == <<"u", "i", "-", "a", "/", "m", ".", "t", "s", ",", " ", "q">>
RawPool == {Raw0, Raw1, Raw2}

\* REPOS_BASE_DIR, at its default
base_dir == <<".">>

\* ------------------------------------------------------------------
\* Utility functions
\* ------------------------------------------------------------------
\* str.strip()
Strip(s) ==
    LET a == RunEnd(s, 1, SpaceClass)
        b == CHOOSE j \in (a - 1)..Len(s) :
                 /\ \A k \in (j + 1)..Len(s) : IsSpace(s[k])
                 /\ (j < a \/ ~IsSpace(s[j]))
    IN  SubSeq(s, a, b)

\* s.replace(",", "\n")
ReplaceCommas(s) == [k \in 1..Len(s) |-> IF s[k] = "," THEN "\n" ELSE s[k]]

\* s.split("\n"), from position i on
RECURSIVE SplitLines(_, _)
SplitLines(s, i) ==
    LET j == IF i <= Len(s) + 1 THEN RunEnd(s, i, NotChar("\n")) ELSE i
    IN  IF j > Len(s) THEN <<SubSeq(s, i, Len(s))>>
        ELSE <<SubSeq(s, i, j - 1)>> \o SplitLines(s, j + 1)

\* the non-empty elements of a sequence of strings, stripped
RECURSIVE StrippedNonEmpty(_)
StrippedNonEmpty(q) ==
    IF q = << >> THEN << >>
    ELSE LET h == Strip(Head(q))
         IN  (IF h = EmptyStr THEN << >> ELSE <<h>>) \o StrippedNonEmpty(Tail(q))

load_changed_files(raw_env) ==
    LET raw == Strip(raw_env)
    IN  IF raw = EmptyStr THEN << >>
        ELSE StrippedNonEmpty(SplitLines(ReplaceCommas(raw), 1))

EmptyFn == [x \in {} |-> 0]

\* One item of the report or of the output. isstr: the item is a str;
\* blank: it is empty or whitespace only; subject: the path a line is
\* formatted from; summary: the services and dependency names a block of
\* summary lines is formatted from; ref: the exception a line is formatted
\* from.
Line(kind) ==
    [kind |-> kind, isstr |-> TRUE, blank |-> FALSE, subject |-> EmptyStr,
     summary |-> EmptyFn, ref |-> "none"]

\* ""
EmptyLine == [Line("") EXCEPT !.blank = TRUE]

\* None
NoneValue == [Line("None") EXCEPT !.isstr = FALSE]

\* "\n".join(report) is kept as the sequence of its lines; it is empty or
\* whitespace only exactly when every line is
AllBlank(txt) == \A k \in 1..Len(txt) : txt[k].blank

FallbackReport == <<Line("# Impact Analysis Report"),
                    Line("The analysis engine returned no data."),
                    Line("This may happen when no changes or no analyzable code exists.")>>

safe_output(txt) == IF AllBlank(txt) THEN FallbackReport ELSE txt

\* bytes.decode("utf-8", errors="ignore")
DecodeIgnore(bytes) == SelectSeq(bytes, LAMBDA c : c # BAD)

NoExc == [type |-> "none"]

\* ------------------------------------------------------------------
\* State
\* ------------------------------------------------------------------
VARIABLES
    tree,           \* the files under the root directory
    rootOK,         \* the root directory exists and can be listed
    rawChanged,     \* the environment variable CHANGED_FILES
    openai_client,  \* TRUE when the module-level OpenAI client was built
    pc,             \* position of the process
    changed,        \* run_analysis: changed
    report,         \* run_analysis: report
    services,       \* run_analysis: services
    graph,          \* build_dependency_graph: graph
    todoSvc,        \* services the outer loop has not visited yet
    service,        \* the service the outer loop is at
    todoFiles,      \* files of it the file loop has not visited yet
    todoDeps,       \* tokens of the current file the loop has not visited yet
    built,          \* build_dependency_graph has returned in this execution
    calls,          \* the provider calls llm_analysis made, in order, each
                    \* with what it did
    ai_output,      \* run_analysis: ai_output
    exc,            \* the exception that left run_analysis, if any
    out,            \* __main__: out
    printed,        \* what the process has printed
    run,            \* which execution of the program this is
    prevGraph       \* the graph the previous execution built, if it built one

envVars == <<tree, rootOK, rawChanged, openai_client>>
buildVars == <<services, graph, todoSvc, service, todoFiles, todoDeps, built>>
llmVars == <<calls, ai_output>>
mainVars == <<exc, out, printed>>
histVars == <<run, prevGraph>>
vars == <<envVars, pc, changed, report, buildVars, llmVars, mainVars, histVars>>

NotBuilt == [built |-> FALSE, graph |-> EmptyFn]

Init ==
    /\ rootOK \in BOOLEAN
    /\ tree \in (IF rootOK THEN Trees ELSE {{}})
    /\ rawChanged \in RawPool
    /\ openai_client \in BOOLEAN
    /\ pc = "run_analysis"
    /\ changed = << >>
    /\ report = << >>
    /\ services = EmptyFn
    /\ graph = EmptyFn
    /\ todoSvc = {}
    /\ service = EmptyStr
    /\ todoFiles = {}
    /\ todoDeps = {}
    /\ built = FALSE
    /\ calls = << >>
    /\ ai_output = NoneValue
    /\ exc = NoExc
    /\ out = << >>
    /\ printed = << >>
    /\ run = 1
    /\ prevGraph = NotBuilt

\* ------------------------------------------------------------------
\* run_analysis, up to the discovery
\* ------------------------------------------------------------------
ReportHead == <<Line("# Impact Analysis Report"), Line("Generated:"),
                Line("**PR Title:**"), EmptyLine>>

ChangedLines(ch) == [k \in 1..Len(ch) |-> [Line("- changed file") EXCEPT !.subject = ch[k]]]

\* lines 173-190: the header, and the early return when nothing changed
Start ==
    /\ pc = "run_analysis"
    /\ changed' = load_changed_files(rawChanged)
    /\ IF changed' = << >>
       THEN /\ report' = ReportHead \o <<Line("### No changed files found.")>>
            /\ out' = report'
            /\ pc' = "print"
       ELSE /\ report' = ReportHead \o <<Line("### Changed Files")>>
                           \o ChangedLines(changed') \o <<EmptyLine>>
            /\ out' = out
            /\ pc' = "discover"
    /\ UNCHANGED <<envVars, buildVars, llmVars, exc, printed, histVars>>

\* ------------------------------------------------------------------
\* discover_microservices
\* ------------------------------------------------------------------
ServicePrefixes ==
    {<<"u", "i", "-">>, <<"c", "r", "u", "d", "-">>, <<"d", "o", "m", "a", "i", "n", "-">>,
     <<"f", "d", "r", "-">>, <<"p", "s", "g", "-">>, <<"a", "p", "i", "g", "e", "e", "-">>}

SourceExtensions ==
    {<<".", "p", "y">>, <<".", "t", "s">>, <<".", "j", "s">>, <<".", "j", "s", "o", "n">>,
     <<".", "y", "m", "l">>, <<".", "y", "a", "m", "l">>}

\* os.path.join
PathJoin(a, b) == a \o <<"/">> \o b

PathOf(f) == PathJoin(PathJoin(base_dir, f.dir), f.name)

\* os.path.isdir(full) and entry.startswith((...))
IsService(e) == e.isdir /\ \E p \in ServicePrefixes : StartsWith(e.name, p)

\* f.endswith((...))
IsSource(name) == \E x \in SourceExtensions : EndsWith(name, x)

\* the mapping service -> files that the function returns
discover_microservices(entries) ==
    [s \in {e.name : e \in {x \in entries : IsService(x)}} |->
        {PathOf(f) : f \in {g \in tree : g.dir = s /\ IsSource(g.name)}}]

\* line 195: os.listdir raises when the root cannot be listed, and nothing
\* in run_analysis catches it
Discover ==
    /\ pc = "discover"
    /\ IF rootOK
       THEN /\ services' = discover_microservices(RootEntries)
            /\ todoSvc' = DOMAIN services'
            /\ pc' = "build"
            /\ exc' = exc
       ELSE /\ exc' = [type |-> "FileNotFoundError"]
            /\ pc' = "except"
            /\ UNCHANGED <<services, todoSvc>>
    /\ UNCHANGED <<envVars, changed, report, graph, service, todoFiles, todoDeps, built,
                   llmVars, out, printed, histVars>>

\* ------------------------------------------------------------------
\* read_file_content and build_dependency_graph
\* ------------------------------------------------------------------
FileAt(path) == CHOOSE f \in tree : PathOf(f) = path

\* variant: the handler of a failed read is missing its return of ""
read_file_content_stale(path) == DecodeIgnore(FileAt(path).bytes)

\* the text of the file, "" when open() or read() raises
read_file_content(path) ==
    IF FileAt(path).readable THEN DecodeIgnore(FileAt(path).bytes) ELSE EmptyStr

\* variant: the inner loop runs over the directory listing
Candidates_entries(svcs) == {e.name : e \in RootEntries}

\* line 114: the names the inner loop compares a token with
Candidates(svcs) == DOMAIN svcs

\* variant: the comparison with the owning service is missing
Matches_self(svc, dep, owner) == Contains(dep, svc)

\* variant: a target counts only once it is a key of the graph
Matches_visited(svc, dep, owner) ==
    Contains(dep, svc) /\ svc # owner /\ svc \in DOMAIN graph

\* line 115: svc in dep and svc != service
Matches(svc, dep, owner) == Contains(dep, svc) /\ svc # owner

\* variant: the weight is set, not incremented
Increment_reset(deps, svc) == 1

\* lines 116-117: the weight of the edge to svc after setdefault and += 1
Increment(deps, svc) == (IF svc \in DOMAIN deps THEN deps[svc] ELSE 0) + 1

\* lines 114-117: the deps of `owner` after the inner loop has run for dep
AddDep(deps, dep, owner) ==
    LET hit == {svc \in Candidates(services) : Matches(svc, dep, owner)}
    IN  [svc \in DOMAIN deps \cup hit |->
            IF svc \in hit THEN Increment(deps, svc) ELSE deps[svc]]

\* where the loops continue once the tokens of a file are exhausted
AfterFile(files) == IF files = {} THEN "build" ELSE "build_file"

\* lines 106-107: the outer loop takes the next service, in the order of
\* os.listdir, which is arbitrary
BuildService ==
    /\ pc = "build"
    /\ \E s \in todoSvc :
        /\ graph' = graph @@ (s :> [files |-> services[s], deps |-> EmptyFn])
        /\ service' = s
        /\ todoSvc' = todoSvc \ {s}
        /\ todoFiles' = services[s]
        /\ pc' = AfterFile(services[s])
    /\ UNCHANGED <<envVars, changed, report, services, todoDeps, built, llmVars,
                   mainVars, histVars>>

\* lines 109-111: the file loop takes the next file, in the order of os.walk
BuildFile ==
    /\ pc = "build_file"
    /\ \E f \in todoFiles :
        /\ todoFiles' = todoFiles \ {f}
        /\ todoDeps' = extract_dependencies(read_file_content(f))
        /\ pc' = IF todoDeps' = {} THEN AfterFile(todoFiles') ELSE "build_dep"
    /\ UNCHANGED <<envVars, changed, report, services, graph, todoSvc, service, built,
                   llmVars, mainVars, histVars>>

\* lines 113-117: the token loop takes the next token, in the iteration
\* order of a set of str, which is arbitrary
BuildDep ==
    /\ pc = "build_dep"
    /\ \E dep \in todoDeps :
        /\ todoDeps' = todoDeps \ {dep}
        /\ graph' = [graph EXCEPT ![service].deps = AddDep(@, dep, service)]
        /\ pc' = IF todoDeps' = {} THEN AfterFile(todoFiles) ELSE "build_dep"
    /\ UNCHANGED <<envVars, changed, report, services, todoSvc, service, todoFiles, built,
                   llmVars, mainVars, histVars>>

\* the block of summary lines, one per key of the graph
SummaryLines(g) ==
    IF DOMAIN g = {} THEN << >>
    ELSE <<[Line("- **svc** depends on: deps") EXCEPT
                !.summary = [s \in DOMAIN g |-> DOMAIN g[s].deps]]>>

\* line 119 and lines 196-207: the graph is returned and summarised
BuildReturn ==
    /\ pc = "build"
    /\ todoSvc = {}
    /\ built' = TRUE
    /\ report' = report \o <<Line("### Microservice Dependency Summary")>>
                   \o SummaryLines(graph) \o <<EmptyLine, Line("## AI Analysis")>>
    /\ pc' = "llm"
    /\ UNCHANGED <<envVars, changed, services, graph, todoSvc, service, todoFiles,
                   todoDeps, llmVars, mainVars, histVars>>

\* ------------------------------------------------------------------
\* llm_analysis
\* ------------------------------------------------------------------
Narrative == Line("narrative markdown")

FailedLine == Line("AI processing failed (OpenAI + Gemini both failed).")

\* what chat.completions.create and the read of message.content can do:
\* raise, or give a text, an empty text or None
OpenAIResults ==
    {[raises |-> TRUE, value |-> NoneValue], [raises |-> FALSE, value |-> Narrative],
     [raises |-> FALSE, value |-> EmptyLine], [raises |-> FALSE, value |-> NoneValue]}

\* what GenerativeModel, generate_content and the read of out.text can do
GeminiResults ==
    {[raises |-> TRUE, value |-> NoneValue], [raises |-> FALSE, value |-> Narrative],
     [raises |-> FALSE, value |-> EmptyLine]}

\* variant: the return inside the try is missing
ReturnsFromOpenAI_never(r) == FALSE

\* lines 156-158: the function returns from inside the try unless it raised
ReturnsFromOpenAI(r) == ~r.raises

\* lines 150-158
CallOpenAI ==
    /\ pc = "llm"
    /\ openai_client
    /\ \E r \in OpenAIResults :
        /\ calls' = Append(calls, [provider |-> "openai", raises |-> r.raises,
                                   value |-> r.value])
        /\ IF ReturnsFromOpenAI(r)
           THEN ai_output' = r.value /\ pc' = "append"
           ELSE ai_output' = ai_output /\ pc' = "gemini"
    /\ UNCHANGED <<envVars, changed, report, buildVars, mainVars, histVars>>

\* lines 161-166, reached when there is no client or its call raised
CallGemini ==
    /\ pc = "gemini" \/ (pc = "llm" /\ ~openai_client)
    /\ \E r \in GeminiResults :
        /\ calls' = Append(calls, [provider |-> "gemini", raises |-> r.raises,
                                   value |-> r.value])
        /\ ai_output' = IF r.raises THEN FailedLine ELSE r.value
        /\ pc' = "append"
    /\ UNCHANGED <<envVars, changed, report, buildVars, mainVars, histVars>>

\* ------------------------------------------------------------------
\* run_analysis, the end, and the entry point
\* ------------------------------------------------------------------
\* lines 210 and 218. llm_analysis raises no Exception, so the handler of
\* lines 211-216 has no case; str.join raises TypeError on an item that is
\* not a str
AppendAndJoin ==
    /\ pc = "append"
    /\ report' = Append(report, ai_output)
    /\ IF \E k \in 1..Len(report') : ~report'[k].isstr
       THEN /\ exc' = [type |-> "TypeError"]
            /\ out' = out
            /\ pc' = "except"
       ELSE /\ exc' = exc
            /\ out' = report'
            /\ pc' = "print"
    /\ UNCHANGED <<envVars, changed, buildVars, llmVars, printed, histVars>>

\* line 227
MainPrint ==
    /\ pc = "print"
    /\ printed' = safe_output(out)
    /\ pc' = "done"
    /\ UNCHANGED <<envVars, changed, report, buildVars, llmVars, exc, out, histVars>>

\* variant: the handler prints nothing
ErrorReport_silent(e) == << >>

ErrorReport(e) ==
    <<Line("# Impact Analysis Error"), [Line("str(e)") EXCEPT !.ref = e.type],
      Line("code fence"), [Line("traceback.format_exc()") EXCEPT !.ref = e.type], Line("code fence")>>

\* lines 228-233
MainExcept ==
    /\ pc = "except"
    /\ printed' = ErrorReport(exc)
    /\ pc' = "done"
    /\ UNCHANGED <<envVars, changed, report, buildVars, llmVars, exc, out, histVars>>

\* the program is executed again over the same tree and environment
Restart ==
    /\ pc = "done"
    /\ run < MaxRuns
    /\ run' = run + 1
    /\ prevGraph' = [built |-> built, graph |-> graph]
    /\ pc' = "run_analysis"
    /\ changed' = << >>
    /\ report' = << >>
    /\ services' = EmptyFn
    /\ graph' = EmptyFn
    /\ todoSvc' = {}
    /\ service' = EmptyStr
    /\ todoFiles' = {}
    /\ todoDeps' = {}
    /\ built' = FALSE
    /\ calls' = << >>
    /\ ai_output' = NoneValue
    /\ exc' = NoExc
    /\ out' = << >>
    /\ printed' = << >>
    /\ UNCHANGED envVars

Next ==
    \/ Start
    \/ Discover
    \/ BuildService
    \/ BuildFile
    \/ BuildDep
    \/ BuildReturn
    \/ CallOpenAI
    \/ CallGemini
    \/ AppendAndJoin
    \/ MainPrint
    \/ MainExcept
    \/ Restart

Spec == Init /\ [][Next]_vars

\* ------------------------------------------------------------------
\* Properties
\* ------------------------------------------------------------------
\* build_dependency_graph has just returned its graph
Returned == built /\ pc = "llm"

\* the weight of the edge A -> B, 0 when there is none
Weight(A, B) == IF B \in DOMAIN graph[A].deps THEN graph[A].deps[B] ELSE 0

\* the tokens the extractor gets from the file at path
TokensOf(path) == extract_dependencies(read_file_content(path))

\* the number of pairs (file of `files`, token of it) whose token contains B,
\* where Tok gives the tokens of a file
PairCount(files, B, Tok(_)) ==
    Cardinality(UNION {{<<f, t>> : t \in {u \in Tok(f) : Contains(u, B)}} : f \in files})

\* C1: in the returned graph every edge A -> B has weight >= 1 and A # B,
\* also when a token of one of A's files contains A's own identifier
C1_NoSelfEdge ==
    built => \A A \in DOMAIN graph : \A B \in DOMAIN graph[A].deps :
                 graph[A].deps[B] >= 1 /\ A # B

\* a graph was returned for a service that has a file with a token that
\* contains the service's own identifier
C1_Witness ==
    /\ built
    /\ \E A \in DOMAIN graph : \E f \in graph[A].files : \E t \in TokensOf(f) :
          Contains(t, A)

\* C2: when the root directory cannot be listed, run_analysis returns
\* normally, with an empty service set and an empty graph
C2_MissingRootProceeds ==
    (pc = "done" /\ ~rootOK /\ changed # << >>) =>
        /\ exc = NoExc
        /\ out # << >>
        /\ built
        /\ services = EmptyFn
        /\ graph = EmptyFn

\* C3: whatever llm_analysis did, run_analysis returns its report normally
\* and the report has a non-empty string where the narrative goes
C3_NarrativePlaceholder ==
    (pc = "done" /\ calls # << >>) =>
        /\ exc = NoExc
        /\ out = report
        /\ report[Len(report)].isstr
        /\ ~report[Len(report)].blank

\* texts run_analysis could hand to safe_output
TextSamples ==
    {<< >>, <<EmptyLine>>, <<EmptyLine, EmptyLine>>, <<Line("text")>>,
     <<EmptyLine, Line("text")>>}

\* C4: every execution of the entry point ends having printed a non-empty
\* report, which names the failure when run_analysis raised, and no loop
\* or provider step is left without a next step before that; safe_output
\* gives a non-empty text for every text, and a non-empty text unchanged
C4_NonEmptyOutput ==
    /\ pc = "done" =>
          /\ printed # << >>
          /\ ~AllBlank(printed)
          /\ exc # NoExc =>
                /\ printed[1].kind = "# Impact Analysis Error"
                /\ \E k \in 1..Len(printed) : printed[k].ref = exc.type
    /\ pc = "build_file" => todoFiles # {}
    /\ pc = "build_dep" => todoDeps # {}
    /\ pc = "gemini" => calls # << >>
    /\ \A txt \in TextSamples :
          /\ safe_output(txt) # << >>
          /\ ~AllBlank(safe_output(txt))
          /\ ~AllBlank(txt) => safe_output(txt) = txt

\* the entry point has printed after run_analysis raised
C4_Witness == pc = "done" /\ exc # NoExc /\ printed # << >>

\* the services that own a changed file (a changed path names a file when
\* the file's path ends with it)
DirectSet ==
    {s \in DOMAIN graph : \E k \in 1..Len(changed) : \E f \in graph[s].files :
        EndsWith(f, changed[k])}

\* the services a report names in an indirect-impact section; run_analysis
\* writes no such section
ReportedIndirect(txt) ==
    UNION {DOMAIN txt[k].summary : k \in {j \in 1..Len(txt) : txt[j].kind = "indirect impact"}}

\* C5: with edges A -> B and B -> C and A owning a changed file, C is in the
\* indirect impact set of the report unless C owns a changed file itself
C5_TransitiveImpact ==
    (pc = "done" /\ built /\ exc = NoExc) =>
        \A A \in DirectSet : \A B \in DOMAIN graph[A].deps :
            \A C \in DOMAIN graph[B].deps \ DirectSet :
                C \in ReportedIndirect(printed)

\* C6: the weight of A -> B is the number of pairs (file of A, distinct token
\* of that file) whose token contains B's identifier, for B # A
C6_WeightIsPairCount ==
    Returned => \A A \in DOMAIN graph : \A B \in DOMAIN services \ {A} :
                 Weight(A, B) = PairCount(graph[A].files, B, TokensOf)

\* a returned graph with an edge of weight 2 and a token that contains the
\* identifiers of two other services
C6_Witness ==
    /\ built
    /\ \E A \in DOMAIN graph : \E B \in DOMAIN graph[A].deps : graph[A].deps[B] = 2
    /\ \E A \in DOMAIN graph : \E f \in graph[A].files : \E t \in TokensOf(f) :
          Cardinality({B \in DOMAIN services \ {A} : Contains(t, B)}) >= 2

\* the files of `files` that can be read
Readable(files) == {f \in files : FileAt(f).readable}

\* the files of `files` that can be read and are valid UTF-8
ValidText(files) == {f \in Readable(files) : ~HasChar(FileAt(f).bytes, BAD)}

\* the tokens of the text left of a file's bytes once the invalid ones are dropped
DecodedTokens(path) == extract_dependencies(DecodeIgnore(FileAt(path).bytes))

C8_KeysAndTargets ==
    built =>
        /\ DOMAIN graph = DOMAIN services
        /\ \A A \in DOMAIN graph : DOMAIN graph[A].deps \subseteq DOMAIN graph

\* a returned graph with an edge, and with a key for a service without files
C8_Witness ==
    /\ built
    /\ \E A \in DOMAIN graph : DOMAIN graph[A].deps # {}
    /\ \E A \in DOMAIN graph : graph[A].files = {}

\* keys, edges and weights of a graph
Edges(g) == [s \in DOMAIN g |-> g[s].deps]

\* C9: two executions over the same tree return the same keys, edges and
\* weights, whatever the order the services, files and tokens were visited in
C9_SameGraphTwice ==
    (built /\ prevGraph.built) => Edges(graph) = Edges(prevGraph.graph)

\* a second execution has returned a graph that has an edge
C9_Witness ==
    /\ run = 2
    /\ built
    /\ prevGraph.built
    /\ \E A \in DOMAIN graph : DOMAIN graph[A].deps # {}

\* llm_analysis has returned
LlmReturned == calls # << >> /\ pc \in {"append", "print", "except", "done"}

\* C10: OpenAI is called first and only when there is a client, Gemini only
\* when there is no client or the OpenAI call raised; a result of OpenAI is
\* returned as it is, the fixed string when both raised; nothing is raised
C10_ProviderOrder ==
    /\ \A i \in 1..Len(calls) :
          /\ calls[i].provider = "openai" => i = 1 /\ openai_client
          /\ calls[i].provider = "gemini" =>
                \/ i = 1 /\ ~openai_client
                \/ i = 2 /\ calls[1].provider = "openai" /\ calls[1].raises
    /\ LlmReturned =>
          /\ (calls[1].provider = "openai" /\ ~calls[1].raises) =>
                Len(calls) = 1 /\ ai_output = calls[1].value
          /\ calls[Len(calls)].provider = "openai" => ~calls[Len(calls)].raises
          /\ calls[Len(calls)].raises => ai_output = FailedLine
          /\ ~calls[Len(calls)].raises => ai_output = calls[Len(calls)].value
    /\ pc = "append" => exc = NoExc

\* llm_analysis has returned after the OpenAI call raised
C10_Witness ==
    /\ pc = "append"
    /\ Len(calls) = 2
    /\ calls[1].provider = "openai"
    /\ calls[2].provider = "gemini"

====
